---- MODULE Spec2Model ----
(***************************************************************************)
(* Model of the editty photo/sticker screen (src/app/(tabs)/index.tsx) and *)
(* of its tab shell (src/app/(tabs)/_layout.tsx).                          *)
(*                                                                         *)
(* The screen keeps four pieces of React state; its handlers are either    *)
(* synchronous (onReset, onAddSticker, onEmojiModalClose) or async         *)
(* functions that suspend at awaited library calls (pickImageAsync,        *)
(* onSaveImageAsync).  Every invocation of an async handler is a record    *)
(* with its own position (pc) and its own log of the calls it made, so     *)
(* that several invocations can be in flight at once.  picks and saves     *)
(* hold the invocations in flight; an invocation that returns leaves them  *)
(* and its record is kept in last, the record of the latest step.          *)
(***************************************************************************)
EXTENDS Integers, Sequences, FiniteSets, TLC

(* ---- bounds ----------------------------------------------------------- *)
(* invocations of an async handler that may be in flight at the same time *)
MaxPicks == 2
MaxSaves == 2

(* ---- values ----------------------------------------------------------- *)
Undefined == "undefined"
Null == "null"
ImageProvider == "background-image.png"
PickedURIs == {"file:///photo1.jpg", "file:///photo2.jpg"}
CaptureURIs == {"file:///tmp/capture.png"}
FalsyURIs == {""}
Stickers == {"emoji1.png", "emoji2.png"}
TabNames == {"index", "about"}

(* JavaScript truthiness of the values that flow through the screen *)
Truthy(x) == x # Undefined /\ x # ""

VARIABLES image, showAppOptions, showEmojiPickerModal, pickedEmoji,
          permissionStatus, permissionRequestedAt, focusedTab,
          picks, saves, last

vars == <<image, showAppOptions, showEmojiPickerModal, pickedEmoji,
          permissionStatus, permissionRequestedAt, focusedTab,
          picks, saves, last>>

Screen == <<image, showAppOptions, showEmojiPickerModal, pickedEmoji>>

(* ---- what Index renders ----------------------------------------------- *)
(* the path handed to ImageViewer for a value of image *)
PathFor(img) == IF Truthy(img) THEN img ELSE ImageProvider

(* the ImageViewer path with the branches of the conditional swapped *)
ViewerPath_Swapped == IF Truthy(image) THEN ImageProvider ELSE image

ViewerPath == IF Truthy(image) THEN image ELSE ImageProvider
StickerShown == IF Truthy(pickedEmoji) THEN {pickedEmoji} ELSE {}
OptionsRowShown == showAppOptions
(* the footer buttons rendered outside the conditional *)
FooterButtonsShown_Always == TRUE

FooterButtonsShown == ~showAppOptions
EmojiPickerVisible == showEmojiPickerModal

(* a render body that asks whenever the permission is not granted *)
RenderRequests_UnlessGranted(status) ==
    IF status # "granted" THEN {status} ELSE {}

(* the render body asks for the permission whenever the status is null *)
RenderRequests(status) == IF status = Null THEN {status} ELSE {}

(* a state change re-renders Index with the permission status of the new   *)
(* state                                                                   *)
Render(status) == permissionRequestedAt' =
                     permissionRequestedAt \cup RenderRequests(status)

(* the visible sticker picker is a modal overlay: it covers the controls   *)
(* of the screen beneath it                                                *)
ModalCovers == EmojiPickerVisible

(* a control of the screen can be pressed while the home tab is focused,   *)
(* the control is rendered and the sticker modal does not cover it         *)
Pressable(rendered) ==
    focusedTab = "index" /\ rendered /\ ~ModalCovers

Event(e, a) == [ev |-> e, arg |-> a]
NoInvocation == [pc |-> "none", log |-> <<>>]
Op(o, a, inv) == [op |-> o, arg |-> a, before |-> Screen, inv |-> inv]
RemoveAt(s, i) == SubSeq(s, 1, i - 1) \o SubSeq(s, i + 1, Len(s))

(* ---- state setters ---------------------------------------------------- *)
setImage(v) == image' = v
setShowAppOptions(v) == showAppOptions' = v
setShowEmojiPickerModal(v) == showEmojiPickerModal' = v
setPickedEmoji(v) == pickedEmoji' = v

Init ==
    /\ image = Undefined
    /\ showAppOptions = FALSE
    /\ showEmojiPickerModal = FALSE
    /\ pickedEmoji = Undefined
    /\ permissionStatus = Null
    /\ permissionRequestedAt = RenderRequests(Null)
    /\ focusedTab = "index"
    /\ picks = <<>>
    /\ saves = <<>>
    /\ last = [op |-> "mount", arg |-> Undefined,
               before |-> <<Undefined, FALSE, FALSE, Undefined>>,
               inv |-> NoInvocation]

(* ---- pick-photo handler ----------------------------------------------- *)
PickStarted ==
    [pc |-> "awaitPicker", snap |-> Screen,
     log |-> <<Event("launchImageLibraryAsync", Undefined)>>]

(* "Choose a photo" pressed: the handler calls the picker and suspends *)
pickImageAsync ==
    /\ Pressable(FooterButtonsShown)
    /\ Len(picks) < MaxPicks
    /\ picks' = Append(picks, PickStarted)
    /\ last' = Op("pickImageAsync", Undefined, PickStarted)
    /\ UNCHANGED <<image, showAppOptions, showEmojiPickerModal, pickedEmoji,
                   permissionStatus, permissionRequestedAt, focusedTab, saves>>

(* pickImageAsync with setImage(result.assets[0].uri) left out *)
PickResolved_NoSetImage(i, uri) ==
    /\ picks[i].pc = "awaitPicker"
    /\ setShowAppOptions(TRUE)
    /\ picks' = RemoveAt(picks, i)
    /\ last' = Op("pickResolved", uri,
                  [picks[i] EXCEPT !.pc = "returned",
                                   !.log = Append(@, Event("resolved", uri))])
    /\ Render(permissionStatus)
    /\ UNCHANGED <<image, showEmojiPickerModal, pickedEmoji, permissionStatus,
                   focusedTab, saves>>

(* pickImageAsync clearing the sticker as well on a successful pick *)
PickResolved_ClearsSticker(i, uri) ==
    /\ picks[i].pc = "awaitPicker"
    /\ setImage(uri)
    /\ setShowAppOptions(TRUE)
    /\ setPickedEmoji(Undefined)
    /\ picks' = RemoveAt(picks, i)
    /\ last' = Op("pickResolved", uri,
                  [picks[i] EXCEPT !.pc = "returned",
                                   !.log = Append(@, Event("resolved", uri))])
    /\ Render(permissionStatus)
    /\ UNCHANGED <<showEmojiPickerModal, permissionStatus, focusedTab, saves>>

(* the picker resolved with canceled = false and assets[0].uri = uri *)
PickResolved(i, uri) ==
    /\ picks[i].pc = "awaitPicker"
    /\ setImage(uri)
    /\ setShowAppOptions(TRUE)
    /\ picks' = RemoveAt(picks, i)
    /\ last' = Op("pickResolved", uri,
                  [picks[i] EXCEPT !.pc = "returned",
                                   !.log = Append(@, Event("resolved", uri))])
    /\ Render(permissionStatus)
    /\ UNCHANGED <<showEmojiPickerModal, pickedEmoji, permissionStatus,
                   focusedTab, saves>>

(* pickImageAsync with setShowAppOptions(true) moved out of the if branch *)
PickCanceled_ShowsOptions(i) ==
    /\ picks[i].pc = "awaitPicker"
    /\ setShowAppOptions(TRUE)
    /\ picks' = RemoveAt(picks, i)
    /\ last' = Op("pickCanceled", Undefined,
                  [picks[i] EXCEPT !.pc = "returned",
                                   !.log = @ \o <<Event("canceled", Undefined),
                                                  Event("alert", "You did not select an Image"),
                                                  Event("console.log", "result")>>])
    /\ Render(permissionStatus)
    /\ UNCHANGED <<image, showEmojiPickerModal, pickedEmoji,
                   permissionStatus, focusedTab, saves>>

(* the picker resolved with canceled = true *)
PickCanceled(i) ==
    /\ picks[i].pc = "awaitPicker"
    /\ picks' = RemoveAt(picks, i)
    /\ last' = Op("pickCanceled", Undefined,
                  [picks[i] EXCEPT !.pc = "returned",
                                   !.log = @ \o <<Event("canceled", Undefined),
                                                  Event("alert", "You did not select an Image"),
                                                  Event("console.log", "result")>>])
    /\ UNCHANGED <<image, showAppOptions, showEmojiPickerModal, pickedEmoji,
                   permissionStatus, permissionRequestedAt, focusedTab, saves>>

(* the picker call rejected: pickImageAsync has no try/catch, so the       *)
(* exception leaves the handler as a rejection of the promise it returned  *)
PickThrew(i) ==
    /\ picks[i].pc = "awaitPicker"
    /\ picks' = RemoveAt(picks, i)
    /\ last' = Op("pickThrew", Undefined,
                  [picks[i] EXCEPT !.pc = "rejected",
                                   !.log = @ \o <<Event("threw", "launchImageLibraryAsync"),
                                                  Event("escaped", "launchImageLibraryAsync")>>])
    /\ UNCHANGED <<image, showAppOptions, showEmojiPickerModal, pickedEmoji,
                   permissionStatus, permissionRequestedAt, focusedTab, saves>>

(* ---- synchronous handlers --------------------------------------------- *)
(* onReset with setPickedEmoji(undefined) left out *)
onReset_KeepsSticker ==
    /\ Pressable(OptionsRowShown)
    /\ setShowAppOptions(FALSE)
    /\ setImage(ImageProvider)
    /\ last' = Op("onReset", Undefined, NoInvocation)
    /\ Render(permissionStatus)
    /\ UNCHANGED <<showEmojiPickerModal, pickedEmoji, permissionStatus,
                   focusedTab, picks, saves>>

onReset ==
    /\ Pressable(OptionsRowShown)
    /\ setShowAppOptions(FALSE)
    /\ setImage(ImageProvider)
    /\ setPickedEmoji(Undefined)
    /\ last' = Op("onReset", Undefined, NoInvocation)
    /\ Render(permissionStatus)
    /\ UNCHANGED <<showEmojiPickerModal, permissionStatus, focusedTab,
                   picks, saves>>

(* onAddSticker calling setShowAppOptions(false) as well *)
onAddSticker_HidesOptions ==
    /\ Pressable(OptionsRowShown)
    /\ setShowEmojiPickerModal(TRUE)
    /\ setShowAppOptions(FALSE)
    /\ last' = Op("onAddSticker", Undefined, NoInvocation)
    /\ Render(permissionStatus)
    /\ UNCHANGED <<image, pickedEmoji, permissionStatus,
                   focusedTab, picks, saves>>

(* onAddSticker clearing the active sticker as well *)
onAddSticker_ClearsSticker ==
    /\ Pressable(OptionsRowShown)
    /\ setShowEmojiPickerModal(TRUE)
    /\ setPickedEmoji(Undefined)
    /\ last' = Op("onAddSticker", Undefined, NoInvocation)
    /\ Render(permissionStatus)
    /\ UNCHANGED <<image, showAppOptions, permissionStatus,
                   focusedTab, picks, saves>>

onAddSticker ==
    /\ Pressable(OptionsRowShown)
    /\ setShowEmojiPickerModal(TRUE)
    /\ last' = Op("onAddSticker", Undefined, NoInvocation)
    /\ Render(permissionStatus)
    /\ UNCHANGED <<image, showAppOptions, pickedEmoji, permissionStatus,
                   focusedTab, picks, saves>>

(* onEmojiModalClose setting the flag to true instead of false *)
onEmojiModalClose_KeepsOpen == setShowEmojiPickerModal(TRUE)

(* the close callback handed to EmojiPicker and to EmojiList *)
onEmojiModalClose == setShowEmojiPickerModal(FALSE)

(* the modal dismissed without a selection: EmojiPicker calls onClose() *)
EmojiPickerClose ==
    /\ focusedTab = "index"
    /\ EmojiPickerVisible
    /\ onEmojiModalClose
    /\ last' = Op("emojiPickerClose", Undefined, NoInvocation)
    /\ Render(permissionStatus)
    /\ UNCHANGED <<image, showAppOptions, pickedEmoji, permissionStatus,
                   focusedTab, picks, saves>>

(* "Use this photo" putting the bundled image back as well *)
UseThisPhoto_SetsImage ==
    /\ Pressable(FooterButtonsShown)
    /\ setShowAppOptions(TRUE)
    /\ setImage(Undefined)
    /\ last' = Op("useThisPhoto", Undefined, NoInvocation)
    /\ Render(permissionStatus)
    /\ UNCHANGED <<showEmojiPickerModal, pickedEmoji, permissionStatus,
                   focusedTab, picks, saves>>

(* "Use this photo" *)
UseThisPhoto ==
    /\ Pressable(FooterButtonsShown)
    /\ setShowAppOptions(TRUE)
    /\ last' = Op("useThisPhoto", Undefined, NoInvocation)
    /\ Render(permissionStatus)
    /\ UNCHANGED <<image, showEmojiPickerModal, pickedEmoji, permissionStatus,
                   focusedTab, picks, saves>>

(* a sticker of the list pressed: EmojiList calls onSelect(item) and then  *)
(* onCloseModal()                                                          *)
EmojiListPress(e) ==
    /\ focusedTab = "index"
    /\ EmojiPickerVisible
    /\ setPickedEmoji(e)
    /\ onEmojiModalClose
    /\ last' = Op("emojiSelected", e, NoInvocation)
    /\ Render(permissionStatus)
    /\ UNCHANGED <<image, showAppOptions, permissionStatus, focusedTab,
                   picks, saves>>

(* ---- save handler ----------------------------------------------------- *)
(* onSaveImageAsync with the await before captureRef left out: the write  *)
(* is issued at once with the pending promise                             *)
SaveStarted_NoAwait ==
    [pc |-> "awaitSave", localUri |-> Undefined,
     log |-> <<Event("captureRef", Undefined),
               Event("saveToLibraryAsync", Undefined)>>]

SaveStarted ==
    [pc |-> "awaitCapture", localUri |-> Undefined,
     log |-> <<Event("captureRef", Undefined)>>]

(* onSaveImageAsync behind a busy flag that rejects a second invocation *)
onSaveImageAsync_Busy ==
    /\ Pressable(OptionsRowShown)
    /\ saves = <<>>
    /\ saves' = Append(saves, SaveStarted)
    /\ last' = Op("onSaveImageAsync", Undefined, SaveStarted)
    /\ UNCHANGED <<image, showAppOptions, showEmojiPickerModal, pickedEmoji,
                   permissionStatus, permissionRequestedAt, focusedTab, picks>>

(* "Save" pressed: inside the try block the handler calls captureRef and   *)
(* suspends                                                                *)
onSaveImageAsync ==
    /\ Pressable(OptionsRowShown)
    /\ Len(saves) < MaxSaves
    /\ saves' = Append(saves, SaveStarted)
    /\ last' = Op("onSaveImageAsync", Undefined, SaveStarted)
    /\ UNCHANGED <<image, showAppOptions, showEmojiPickerModal, pickedEmoji,
                   permissionStatus, permissionRequestedAt, focusedTab, picks>>

(* onSaveImageAsync handing something other than localUri to the write *)
AfterCapture_WrongArg(inv, uri) ==
    [inv EXCEPT !.pc = "awaitSave",
                !.localUri = uri,
                !.log = @ \o <<Event("captureResolved", uri),
                               Event("saveToLibraryAsync", Undefined)>>]

(* onSaveImageAsync testing localUri before the write: a falsy URI gets   *)
(* the failure alert and no write                                         *)
AfterCapture_ChecksFirst(inv, uri) ==
    IF Truthy(uri)
    THEN [inv EXCEPT !.pc = "awaitSave",
                     !.localUri = uri,
                     !.log = @ \o <<Event("captureResolved", uri),
                                    Event("saveToLibraryAsync", uri)>>]
    ELSE [inv EXCEPT !.pc = "returned",
                     !.localUri = uri,
                     !.log = @ \o <<Event("captureResolved", uri),
                                    Event("alert", "Save Failed!! ):")>>]

(* the invocation after captureRef resolved with uri: it stores uri in     *)
(* localUri and calls saveToLibraryAsync(localUri)                         *)
AfterCapture(inv, uri) ==
    [inv EXCEPT !.pc = "awaitSave",
                !.localUri = uri,
                !.log = @ \o <<Event("captureResolved", uri),
                               Event("saveToLibraryAsync", uri)>>]

CaptureResolved(i, uri) ==
    /\ saves[i].pc = "awaitCapture"
    /\ saves' = [saves EXCEPT ![i] = AfterCapture(saves[i], uri)]
    /\ last' = Op("captureResolved", uri, AfterCapture(saves[i], uri))
    /\ UNCHANGED <<image, showAppOptions, showEmojiPickerModal, pickedEmoji,
                   permissionStatus, permissionRequestedAt, focusedTab, picks>>

(* a catch block that calls the failed library function once more *)
Caught_Retries(inv, call) ==
    [inv EXCEPT !.pc = "returned",
                !.log = @ \o <<Event("threw", call),
                               Event("caught", call),
                               Event("console.log", "error"),
                               Event(call, inv.localUri)>>]

(* the catch block: the error is logged to the console and the handler     *)
(* returns                                                                 *)
Caught(inv, call) ==
    [inv EXCEPT !.pc = "returned",
                !.log = @ \o <<Event("threw", call),
                               Event("caught", call),
                               Event("console.log", "error")>>]

(* captureRef threw *)
CaptureThrew(i) ==
    /\ saves[i].pc = "awaitCapture"
    /\ saves' = RemoveAt(saves, i)
    /\ last' = Op("captureThrew", Undefined, Caught(saves[i], "captureRef"))
    /\ UNCHANGED <<image, showAppOptions, showEmojiPickerModal, pickedEmoji,
                   permissionStatus, permissionRequestedAt, focusedTab, picks>>

(* the alert the handler shows once the library write has resolved *)
SaveAlert(localUri) ==
    IF Truthy(localUri) THEN "Saved Succesfully!!!" ELSE "Save Failed!! ):"

AfterSave(inv) ==
    [inv EXCEPT !.pc = "returned",
                !.log = @ \o <<Event("saveResolved", inv.localUri),
                               Event("alert", SaveAlert(inv.localUri))>>]

(* saveToLibraryAsync resolved *)
SaveResolved(i) ==
    /\ saves[i].pc = "awaitSave"
    /\ saves' = RemoveAt(saves, i)
    /\ last' = Op("saveResolved", saves[i].localUri, AfterSave(saves[i]))
    /\ UNCHANGED <<image, showAppOptions, showEmojiPickerModal, pickedEmoji,
                   permissionStatus, permissionRequestedAt, focusedTab, picks>>

(* saveToLibraryAsync threw *)
SaveThrew(i) ==
    /\ saves[i].pc = "awaitSave"
    /\ saves' = RemoveAt(saves, i)
    /\ last' = Op("saveThrew", saves[i].localUri,
                  Caught(saves[i], "saveToLibraryAsync"))
    /\ UNCHANGED <<image, showAppOptions, showEmojiPickerModal, pickedEmoji,
                   permissionStatus, permissionRequestedAt, focusedTab, picks>>

(* ---- permission hook and tab shell ------------------------------------ *)
(* usePermissions delivers a status; the screen re-renders with it *)
PermissionResolved(status) ==
    /\ permissionStatus = Null
    /\ permissionStatus' = status
    /\ last' = Op("permissionResolved", status, NoInvocation)
    /\ Render(status)
    /\ UNCHANGED <<image, showAppOptions, showEmojiPickerModal, pickedEmoji,
                   focusedTab, picks, saves>>

TabPress(t) ==
    /\ focusedTab # t
    /\ focusedTab' = t
    /\ last' = Op("tabPress", t, NoInvocation)
    /\ UNCHANGED <<image, showAppOptions, showEmojiPickerModal, pickedEmoji,
                   permissionStatus, permissionRequestedAt, picks, saves>>

(* tabBarIcon callbacks with the two branches of the conditional swapped *)
TabIcon_Swapped(t, focused) ==
    IF t = "index"
    THEN (IF focused THEN "home-outline" ELSE "home-sharp")
    ELSE (IF focused THEN "information-circle-outline"
                     ELSE "information-circle-sharp")

(* icon of a tab, as the tabBarIcon callbacks compute it *)
TabIcon(t, focused) ==
    IF t = "index"
    THEN (IF focused THEN "home-sharp" ELSE "home-outline")
    ELSE (IF focused THEN "information-circle-sharp"
                     ELSE "information-circle-outline")

(* the navigator focuses one tab, shows its screen and hands the focus     *)
(* state of each tab to that tab's tabBarIcon callback                     *)
Focused(t) == focusedTab = t
ScreensShown == {t \in TabNames : Focused(t)}
TabBarIcon(t) == TabIcon(t, Focused(t))
FocusedGlyphs == {"home-sharp", "information-circle-sharp"}
OutlineGlyphs == {"home-outline", "information-circle-outline"}

(* ---- specification ---------------------------------------------------- *)
Next ==
    \/ pickImageAsync
    \/ \E i \in DOMAIN picks : \E uri \in PickedURIs : PickResolved(i, uri)
    \/ \E i \in DOMAIN picks : PickCanceled(i)
    \/ \E i \in DOMAIN picks : PickThrew(i)
    \/ onReset
    \/ onAddSticker
    \/ EmojiPickerClose
    \/ UseThisPhoto
    \/ \E e \in Stickers : EmojiListPress(e)
    \/ onSaveImageAsync
    \/ \E i \in DOMAIN saves : \E uri \in CaptureURIs \cup FalsyURIs : CaptureResolved(i, uri)
    \/ \E i \in DOMAIN saves : CaptureThrew(i)
    \/ \E i \in DOMAIN saves : SaveResolved(i)
    \/ \E i \in DOMAIN saves : SaveThrew(i)
    \/ \E status \in {"granted", "denied"} : PermissionResolved(status)
    \/ \E t \in TabNames : TabPress(t)

Spec == Init /\ [][Next]_vars

(* ---- reading the logs ------------------------------------------------- *)
Positions(log, e) == {k \in DOMAIN log : log[k].ev = e}
Count(log, e) == Cardinality(Positions(log, e))
Has(log, e) == Positions(log, e) # {}
Shows(log, msg) == \E k \in DOMAIN log : log[k] = Event("alert", msg)
Threw(log, call) == \E k \in DOMAIN log : log[k] = Event("threw", call)

SaveOps == {"onSaveImageAsync", "captureResolved", "captureThrew",
            "saveResolved", "saveThrew"}
PickOps == {"pickImageAsync", "pickResolved", "pickCanceled", "pickThrew"}

(* every invocation of the save handler the state knows of *)
SaveInvocations ==
    {saves[i] : i \in DOMAIN saves}
        \cup (IF last.op \in SaveOps THEN {last.inv} ELSE {})

(* ---- claims ----------------------------------------------------------- *)

(* C1: once the picker call of the pick-photo handler has resolved with a  *)
(* result that is not canceled, the background reference is the URI of the *)
(* first returned asset, the canvas shows that URI and not the bundled     *)
(* default, and the options row is shown (editing mode).                   *)
C1_PickShowsPhoto ==
    last.op = "pickResolved" =>
        /\ image = last.arg
        /\ Event("resolved", image) = last.inv.log[Len(last.inv.log)]
        /\ ViewerPath = last.arg
        /\ ViewerPath # ImageProvider
        /\ showAppOptions
        /\ OptionsRowShown /\ ~FooterButtonsShown

C1_Witness ==
    /\ last.op = "pickResolved"
    /\ last.before[1] = Undefined
    /\ last.before[2] = FALSE
    /\ ViewerPath \in PickedURIs

(* C2: the pick-photo handler whose picker call resolves as canceled shows *)
(* an alert and changes no state: neither its triggering step nor its      *)
(* resuming step changes the background reference, the editing-mode flag,  *)
(* the active sticker or the sticker-modal flag, so they are what they     *)
(* were when the pick was triggered.                                       *)
C2_CancelChangesNothing ==
    /\ last.op = "pickImageAsync" =>
           Screen = last.before /\ last.inv.snap = Screen
    /\ last.op = "pickCanceled" =>
           /\ Screen = last.before
           /\ Shows(last.inv.log, "You did not select an Image")

C2_Witness ==
    /\ last.op = "pickCanceled"
    /\ Screen = last.inv.snap
    /\ ~showAppOptions
    /\ ViewerPath = ImageProvider

(* C3: after reset the canvas shows the bundled default background, no     *)
(* sticker is active, and the mode is initial: the choose-photo buttons    *)
(* are shown and the options row is hidden.                                *)
C3_ResetRestores ==
    last.op = "onReset" =>
        /\ ViewerPath = ImageProvider
        /\ pickedEmoji = Undefined
        /\ StickerShown = {}
        /\ ~showAppOptions
        /\ FooterButtonsShown /\ ~OptionsRowShown

C3_Witness ==
    /\ last.op = "onReset"
    /\ last.before[1] \in PickedURIs
    /\ last.before[4] \in Stickers

(* C4: selecting a sticker in the picker makes exactly that sticker the    *)
(* active one and closes the modal; at most one sticker is ever active.    *)
C4_SelectSetsSticker ==
    /\ Cardinality(StickerShown) <= 1
    /\ last.op = "emojiSelected" =>
           /\ pickedEmoji = last.arg
           /\ StickerShown = {last.arg}
           /\ ~showEmojiPickerModal
           /\ ~EmojiPickerVisible

C4_Witness ==
    /\ last.op = "emojiSelected"
    /\ last.before[4] \in Stickers
    /\ last.before[4] # pickedEmoji
    /\ last.before[3] = TRUE

(* C5: an invocation of the save handler in which capture resolved with a  *)
(* non-empty URI and the library write resolved has issued exactly one     *)
(* library write, with the URI capture returned, and has shown the success *)
(* alert after that write.                                                 *)
C5_OneWriteThenSuccess ==
    (last.op = "saveResolved" /\ Truthy(last.inv.localUri)) =>
        LET log == last.inv.log IN
        /\ Count(log, "saveToLibraryAsync") = 1
        /\ \A w \in Positions(log, "saveToLibraryAsync") :
              /\ \E c \in Positions(log, "captureResolved") :
                    c < w /\ log[c].arg = log[w].arg
              /\ \E a \in DOMAIN log :
                    /\ log[a] = Event("alert", "Saved Succesfully!!!")
                    /\ w < a
                    /\ \E r \in Positions(log, "saveResolved") : w < r /\ r < a

C5_Witness ==
    /\ last.op = "saveResolved"
    /\ last.inv.localUri \in CaptureURIs
    /\ Shows(last.inv.log, "Saved Succesfully!!!")

(* C6: in every invocation of the save handler the library write is issued *)
(* only after capture has resolved, and an invocation whose capture raised *)
(* issues no library write.                                                *)
C6_WriteAfterCapture ==
    \A inv \in SaveInvocations :
        /\ \A w \in Positions(inv.log, "saveToLibraryAsync") :
              \E c \in Positions(inv.log, "captureResolved") : c < w
        /\ Threw(inv.log, "captureRef") => ~Has(inv.log, "saveToLibraryAsync")

C6_Witness ==
    /\ last.op = "captureThrew"
    /\ Threw(last.inv.log, "captureRef")
    /\ \E i \in DOMAIN saves : saves[i].pc = "awaitSave"

(* C7: an invocation of the save handler that failed because capture threw *)
(* or because the library write threw has shown a failure alert by the     *)
(* time it returns.                                                        *)
C7_FailureAlerts ==
    \A inv \in SaveInvocations :
        (inv.pc = "returned"
            /\ (Threw(inv.log, "captureRef")
                   \/ Threw(inv.log, "saveToLibraryAsync")))
        => Shows(inv.log, "Save Failed!! ):")

(* C8: an invocation of the save handler whose capture returned a falsy    *)
(* URI has shown the failure alert, and not the success alert, by the time *)
(* it returns.                                                             *)
C8_FalsyUriFails ==
    \A inv \in SaveInvocations :
        (inv.pc = "returned"
            /\ \E c \in Positions(inv.log, "captureResolved") :
                  ~Truthy(inv.log[c].arg))
        => /\ Shows(inv.log, "Save Failed!! ):")
           /\ ~Shows(inv.log, "Saved Succesfully!!!")

(* C9: an exception raised by the picker launch, by capture or by the      *)
(* library write is caught inside the handler that made the call: no       *)
(* invocation of the pick handler or of the save handler ends with the     *)
(* exception leaving it.                                                   *)
C9_NothingEscapes ==
    last.op \in SaveOps \cup PickOps =>
        /\ last.inv.pc # "rejected"
        /\ ~Has(last.inv.log, "escaped")
        /\ \A k \in Positions(last.inv.log, "threw") :
              \E c \in Positions(last.inv.log, "caught") :
                  k < c /\ last.inv.log[c].arg = last.inv.log[k].arg

(* C10: no step of the save handler changes the background reference, the  *)
(* active sticker, the editing-mode flag or the sticker-modal flag,        *)
(* whether it ends in success, a thrown capture or a thrown write; and no  *)
(* invocation calls capture more than once or the library write more than  *)
(* once.                                                                   *)
C10_SaveFrameNoRetry ==
    /\ last.op \in SaveOps => Screen = last.before
    /\ \A inv \in SaveInvocations :
          /\ Count(inv.log, "captureRef") <= 1
          /\ Count(inv.log, "saveToLibraryAsync") <= 1

C10_Witness ==
    /\ last.op = "saveThrew"
    /\ Count(last.inv.log, "saveToLibraryAsync") = 1
    /\ image \in PickedURIs
    /\ pickedEmoji \in Stickers


(* C11: the UI mode changes only from initial to editing by a successful   *)
(* photo pick and from editing to initial by reset; no other operation     *)
(* changes it.                                                             *)
C11_OnlyPickAndReset ==
    last.before[2] # showAppOptions =>
        \/ last.op = "pickResolved" /\ ~last.before[2] /\ showAppOptions
        \/ last.op = "onReset" /\ last.before[2] /\ ~showAppOptions

(* C11 as amended: the UI mode changes from initial to editing only by a   *)
(* successful photo pick or by "Use this photo", and from editing to       *)
(* initial only by reset.                                                  *)
C11_ModeTransitions ==
    last.before[2] # showAppOptions =>
        \/ last.op \in {"pickResolved", "useThisPhoto"}
              /\ ~last.before[2] /\ showAppOptions
        \/ last.op = "onReset" /\ last.before[2] /\ ~showAppOptions

C11_Witness ==
    /\ last.op = "useThisPhoto"
    /\ ~last.before[2]
    /\ showAppOptions
    /\ picks = <<>>

(* C12: the async handlers are not guarded against re-entry: in-flight     *)
(* invocations never disable the save button or the choose-photo button,   *)
(* so a handler can be invoked again while an earlier invocation is still  *)
(* awaiting, and every in-flight save has made its own capture call and,   *)
(* once its capture resolved, its own library write.                       *)
C12_NoReentryGuard ==
    /\ (Pressable(OptionsRowShown) /\ Len(saves) < MaxSaves)
           => ENABLED onSaveImageAsync
    /\ (Pressable(FooterButtonsShown) /\ Len(picks) < MaxPicks)
           => ENABLED pickImageAsync
    /\ \A i \in DOMAIN saves :
          /\ Count(saves[i].log, "captureRef") = 1
          /\ saves[i].pc = "awaitSave"
                => Count(saves[i].log, "saveToLibraryAsync") = 1

C12_Witness ==
    /\ Len(saves) >= 2
    /\ Len(picks) >= 2
    /\ saves[1].pc = "awaitSave"
    /\ saves[2].pc = "awaitSave"
    /\ last.op = "captureResolved"

(* C13: exactly one tab is selected and exactly one of the two screens is  *)
(* shown; the icon of the selected tab is its focused glyph, the icon of   *)
(* the other tab is its outline glyph.                                     *)
C13_OneTabFocused ==
    /\ Cardinality({t \in TabNames : Focused(t)}) = 1
    /\ Cardinality(ScreensShown) = 1
    /\ \A t \in TabNames :
          /\ Focused(t) => TabBarIcon(t) \in FocusedGlyphs
          /\ ~Focused(t) => TabBarIcon(t) \in OutlineGlyphs

C13_Witness ==
    /\ last.op = "tabPress"
    /\ Focused("about")
    /\ TabBarIcon("about") = "information-circle-sharp"
    /\ TabBarIcon("index") = "home-outline"


(* C14: exactly one of the two control groups is shown: the options row    *)
(* (reset, add sticker, save) when the editing-mode flag is set, the       *)
(* choose-photo and use-this-photo buttons otherwise; never both and never *)
(* neither.                                                                *)
C14_OneControlGroup ==
    /\ showAppOptions => OptionsRowShown /\ ~FooterButtonsShown
    /\ ~showAppOptions => FooterButtonsShown /\ ~OptionsRowShown
    /\ OptionsRowShown # FooterButtonsShown

C14_Witness ==
    /\ last.op = "pickResolved"
    /\ OptionsRowShown
    /\ ~FooterButtonsShown
    /\ ~last.before[2]

(* C15: whenever the sticker-picker modal is visible the UI mode is        *)
(* editing.                                                                *)
C15_ModalOnlyInEditing ==
    EmojiPickerVisible => showAppOptions /\ OptionsRowShown

C15_Witness ==
    /\ EmojiPickerVisible
    /\ showAppOptions
    /\ last.op = "pickResolved"

(* C16: the canvas shows exactly one background, either the bundled        *)
(* default or a picked URI: the bundled default at mount and after every   *)
(* reset, the picked URI after every successful pick, and no other         *)
(* operation changes the background shown, so it is the URI of the most    *)
(* recent successful pick since the last reset, or the bundled default     *)
(* when there is none.                                                     *)
C16_BackgroundShown ==
    /\ ViewerPath \in {ImageProvider} \cup PickedURIs
    /\ last.op \in {"mount", "onReset"} => ViewerPath = ImageProvider
    /\ last.op = "pickResolved" => ViewerPath = last.arg
    /\ last.op \notin {"mount", "onReset", "pickResolved"}
          => ViewerPath = PathFor(last.before[1])

C16_Witness ==
    /\ last.op = "pickResolved"
    /\ last.before[1] = ImageProvider
    /\ ViewerPath \in PickedURIs
    /\ ViewerPath = last.arg

(* C17: the render body requests the media-library permission only while   *)
(* the permission status is null, never once it is granted or denied, and  *)
(* a pending or denied permission disables neither the choose-photo button *)
(* nor the save button.                                                    *)
C17_PermissionOnlyWhileNull ==
    /\ permissionRequestedAt \subseteq {Null}
    /\ permissionStatus # "granted" =>
          /\ (Pressable(FooterButtonsShown) /\ Len(picks) < MaxPicks)
                => ENABLED pickImageAsync
          /\ (Pressable(OptionsRowShown) /\ Len(saves) < MaxSaves)
                => ENABLED onSaveImageAsync

C17_Witness ==
    /\ permissionStatus = "denied"
    /\ last.op = "onSaveImageAsync"
    /\ last.before[1] \in PickedURIs
    /\ permissionRequestedAt = {Null}


(* C18: whenever the UI mode is initial no sticker is active (a control    *)
(* can be pressed only while it is rendered and not covered by the visible *)
(* sticker modal).                                                         *)
C18_NoStickerInInitial ==
    ~showAppOptions => pickedEmoji = Undefined /\ StickerShown = {}

C18_Witness ==
    /\ ~showAppOptions
    /\ last.op = "onReset"
    /\ last.before[4] \in Stickers
    /\ pickedEmoji = Undefined

(* C19: the save handler issues the library write with the captured URI    *)
(* before it tests that URI: in every invocation the resolution of capture *)
(* is followed at once by the write call with the URI capture returned,    *)
(* falsy or not, and the success alert appears only after the write of     *)
(* that invocation has resolved, never in an invocation whose write threw. *)
C19_WriteBeforeCheck ==
    \A inv \in SaveInvocations :
        /\ \A c \in Positions(inv.log, "captureResolved") :
              /\ c + 1 \in DOMAIN inv.log
              /\ inv.log[c + 1] = Event("saveToLibraryAsync", inv.log[c].arg)
        /\ \A a \in DOMAIN inv.log :
              inv.log[a] = Event("alert", "Saved Succesfully!!!") =>
                  /\ \E r \in Positions(inv.log, "saveResolved") : r < a
                  /\ ~Threw(inv.log, "saveToLibraryAsync")

C19_Witness ==
    /\ last.op = "captureResolved"
    /\ last.arg \in FalsyURIs
    /\ Has(last.inv.log, "saveToLibraryAsync")
    /\ \E i \in DOMAIN saves : saves[i] = last.inv

(* C20: a pick that resolves successfully leaves the active sticker and    *)
(* the sticker-modal flag unchanged (it writes only the background         *)
(* reference and the editing-mode flag), also when it resolves in editing  *)
(* mode after a sticker was chosen while it was in flight.                 *)
C20_PickFrame ==
    last.op = "pickResolved" =>
        /\ pickedEmoji = last.before[4]
        /\ showEmojiPickerModal = last.before[3]

C20_Witness ==
    /\ last.op = "pickResolved"
    /\ last.before[2] = TRUE
    /\ last.inv.snap[4] = Undefined
    /\ last.before[4] \in Stickers
    /\ pickedEmoji \in Stickers


(* C21: pressing "Use this photo" in initial mode switches the UI mode to  *)
(* editing and changes nothing else: the background reference, the active  *)
(* sticker and the sticker-modal flag are what they were before the press. *)
C21_UseThisPhotoFrame ==
    last.op = "useThisPhoto" =>
        /\ ~last.before[2]
        /\ showAppOptions
        /\ OptionsRowShown
        /\ image = last.before[1]
        /\ ViewerPath = PathFor(last.before[1])
        /\ showEmojiPickerModal = last.before[3]
        /\ pickedEmoji = last.before[4]

C21_Witness ==
    /\ last.op = "useThisPhoto"
    /\ last.before[1] = ImageProvider
    /\ image = ImageProvider
    /\ showAppOptions


(* C22: opening the sticker picker and closing it without a selection only *)
(* toggle the sticker-modal flag: the add-sticker step sets the flag and   *)
(* the close step clears it, neither changes the background reference, the *)
(* active sticker or the editing-mode flag, so a close that directly       *)
(* follows an open gives back the screen state from before the open; and   *)
(* the close callback applied while the flag is already clear leaves the   *)
(* flag as it is.                                                          *)
C22_Step ==
    /\ last'.op = "onAddSticker" => Screen' = [Screen EXCEPT ![3] = TRUE]
    /\ last'.op = "emojiPickerClose" => Screen' = [Screen EXCEPT ![3] = FALSE]
    /\ (last.op = "onAddSticker" /\ last'.op = "emojiPickerClose")
          => Screen' = last.before
    /\ (~showEmojiPickerModal /\ onEmojiModalClose)
          => UNCHANGED showEmojiPickerModal

C22_OpenCloseToggles == [][C22_Step]_vars

C22_Witness ==
    /\ last.op = "emojiPickerClose"
    /\ last.before[3] = TRUE
    /\ ~showEmojiPickerModal
    /\ pickedEmoji \in Stickers
    /\ image \in PickedURIs
    /\ showAppOptions

====
